---- MODULE Spec2Model ----
(***************************************************************************)
(* A model of the AIS address API: the four query views of                 *)
(* ais/api/views.py and the GeoJSON serializers of ais/api/serializers.py. *)
(*                                                                         *)
(* A request is one step: from the idle application the view's action      *)
(* draws the request (the parser's components, the request arguments, how  *)
(* many records the registry matches), runs the whole handler and leaves   *)
(* the request, the trace of the calls it made to its collaborators (the   *)
(* query executor, the paginator, the serializer) and the response.        *)
(***************************************************************************)
EXTENDS Integers, Sequences, FiniteSets, TLC

VARIABLES
    endpoint,   \* the route (or serializer entry point) the request goes to
    req,        \* the request: parsed components, arguments, registry content
    calls,      \* the calls the handler made to its collaborators, in order
    resp        \* None before the handler ran, then its response

vars == <<endpoint, req, calls, resp>>

(***************************************************************************)
(* Python values.  A string is a sequence of characters; a word nobody     *)
(* looks into is a sequence of one element.                                *)
(***************************************************************************)
None == [t |-> "None"]
Str(cs) == [t |-> "str", cs |-> cs]
Num(n) == [t |-> "int", n |-> n]
\* A float with three decimals, in thousandths.
Flt(milli) == [t |-> "float", milli |-> milli]
List(items) == [t |-> "list", items |-> items]
\* An OrderedDict: its items, <<key, value>>, in insertion order.
ODict(items) == [t |-> "odict", items |-> items]

\* Python's truth value of the values a view or a serializer tests.
Truthy(v) ==
    CASE v.t = "None" -> FALSE
      [] v.t = "str" -> Len(v.cs) > 0
      [] v.t = "int" -> v.n # 0
      [] v.t = "list" -> Len(v.items) > 0
      [] v.t = "odict" -> Len(v.items) > 0
      [] OTHER -> TRUE

\* a or b
Or(a, b) == IF Truthy(a) THEN a ELSE b

Range(s) == {s[i] : i \in DOMAIN s}

Keys(items) == [i \in DOMAIN items |-> items[i][1]]

DigitValue ==
    [c \in {"0", "1", "2", "3", "4", "5", "6", "7", "8", "9"} |->
        CASE c = "0" -> 0 [] c = "1" -> 1 [] c = "2" -> 2 [] c = "3" -> 3
          [] c = "4" -> 4 [] c = "5" -> 5 [] c = "6" -> 6 [] c = "7" -> 7
          [] c = "8" -> 8 [] c = "9" -> 9]

IsDigits(cs) == Len(cs) > 0 /\ \A i \in DOMAIN cs : cs[i] \in DOMAIN DigitValue

RECURSIVE DigitsToNat(_)
DigitsToNat(cs) ==
    IF Len(cs) = 0 THEN 0
    ELSE 10 * DigitsToNat(SubSeq(cs, 1, Len(cs) - 1)) + DigitValue[cs[Len(cs)]]

\* int(v): the integer, or the exception int() raises.  The strings read here
\* are runs of digits with an optional minus sign; int(None) is a TypeError,
\* not a ValueError.
PyInt(v) ==
    CASE v.t = "int" -> [ok |-> TRUE, n |-> v.n]
      [] v.t = "str" ->
            IF IsDigits(v.cs) THEN [ok |-> TRUE, n |-> DigitsToNat(v.cs)]
            ELSE IF Len(v.cs) > 1 /\ v.cs[1] = "-" /\ IsDigits(Tail(v.cs))
                 THEN [ok |-> TRUE, n |-> 0 - DigitsToNat(Tail(v.cs))]
            ELSE [ok |-> FALSE, exc |-> "ValueError"]
      [] OTHER -> [ok |-> FALSE, exc |-> "TypeError"]

\* The decimal a string of digits with at most one point denotes, as
\* mant / 10^dec.
PointAt(cs) == IF \E i \in DOMAIN cs : cs[i] = "." THEN CHOOSE i \in DOMAIN cs : cs[i] = "." ELSE 0

WithoutAt(cs, i) == SubSeq(cs, 1, i - 1) \o SubSeq(cs, i + 1, Len(cs))

\* float(v): the number, or the exception float() raises.
PyFloat(v) ==
    CASE v.t = "int" -> [ok |-> TRUE, mant |-> v.n, dec |-> 0]
      [] v.t = "float" -> [ok |-> TRUE, mant |-> v.milli, dec |-> 3]
      [] v.t = "str" ->
            LET p == PointAt(v.cs)
                ds == IF p = 0 THEN v.cs ELSE WithoutAt(v.cs, p)
            IN  IF IsDigits(ds)
                THEN [ok |-> TRUE, mant |-> DigitsToNat(ds),
                      dec |-> IF p = 0 THEN 0 ELSE Len(v.cs) - p]
                ELSE [ok |-> FALSE, exc |-> "ValueError"]
      [] OTHER -> [ok |-> FALSE, exc |-> "TypeError"]

RECURSIVE Pow10(_)
Pow10(k) == IF k = 0 THEN 1 ELSE 10 * Pow10(k - 1)

\* round(x / 100, 3) of x = mant / 10^dec, in thousandths.  A decimal that
\* lies half way between two thousandths is a double on one side or the other:
\* tieUp is the side the build's double falls on.
RoundRate(mant, dec, tieUp) ==
    IF dec <= 1 THEN mant * Pow10(1 - dec)
    ELSE LET d == Pow10(dec - 1)
             lo == mant \div d
             r == mant % d
         IN  IF 2 * r < d THEN lo
             ELSE IF 2 * r > d THEN lo + 1
             ELSE IF tieUp THEN lo + 1 ELSE lo

(***************************************************************************)
(* OrderedDict and dict operations.                                        *)
(***************************************************************************)
Exc(name) == [t |-> "exc", name |-> name]

IsExc(v) == v.t = "exc"

Has(items, k) == \E i \in DOMAIN items : items[i][1] = k

IndexOf(items, k) == CHOOSE i \in DOMAIN items : items[i][1] = k

\* d[k]
GetItem(d, k) ==
    IF d.t \notin {"odict"} THEN Exc("TypeError")
    ELSE IF Has(d.items, k) THEN d.items[IndexOf(d.items, k)][2]
    ELSE Exc("KeyError")

\* d[k] = v: a key the dict holds keeps its place.
SetItem(items, k, v) ==
    IF Has(items, k)
    THEN [i \in DOMAIN items |-> IF items[i][1] = k THEN <<k, v>> ELSE items[i]]
    ELSE Append(items, <<k, v>>)

\* OrderedDict(pairs), and d.update(pairs): the pairs set in order.
RECURSIVE SetAll(_, _)
SetAll(items, pairs) ==
    IF Len(pairs) = 0 THEN items
    ELSE SetAll(SetItem(items, pairs[1][1], pairs[1][2]), Tail(pairs))

OrderedDict(pairs) == ODict(SetAll(<<>>, pairs))

\* s.split(sep)
RECURSIVE SplitFrom(_, _, _)
SplitFrom(cs, sep, cur) ==
    IF Len(cs) = 0 THEN <<Str(cur)>>
    ELSE IF cs[1] = sep THEN <<Str(cur)>> \o SplitFrom(Tail(cs), sep, <<>>)
    ELSE SplitFrom(Tail(cs), sep, Append(cur, cs[1]))

Split(v, sep) == List(SplitFrom(v.cs, sep, <<>>))

(***************************************************************************)
(* ais/api/serializers.py                                                  *)
(***************************************************************************)

\* json.dumps: the JSON text, as the JSON value it denotes.  An object keeps
\* the dict's order.
RECURSIVE json_dumps(_)
json_dumps(v) ==
    CASE v.t = "None" -> [t |-> "null"]
      [] v.t = "str" -> [t |-> "string", cs |-> v.cs]
      [] v.t = "int" -> [t |-> "number", milli |-> 1000 * v.n]
      [] v.t = "float" -> [t |-> "number", milli |-> v.milli]
      [] v.t = "list" ->
            [t |-> "array", items |-> [i \in DOMAIN v.items |-> json_dumps(v.items[i])]]
      [] v.t = "odict" ->
            [t |-> "object",
             items |-> [i \in DOMAIN v.items |->
                            <<v.items[i][1], json_dumps(v.items[i][2])>>]]
      [] v.t = "exc" -> v

\* A render that adds the pagination to a single feature too.
render_paginating_feature(self, data) ==
    LET meta == IF Truthy(self.metadata) THEN self.metadata.items ELSE <<>>
        pages == IF Truthy(self.pagination) THEN self.pagination.items ELSE <<>>
        final_data ==
            IF data.t = "list"
            THEN meta \o pages
                 \o << <<"type", Str(<<"FeatureCollection">>)>>, <<"features", data>> >>
            ELSE meta \o pages \o data.items
    IN  json_dumps(OrderedDict(final_data))

\* GeoJSONSerializer.render.  self is [metadata, pagination], each None or a
\* dict; data is a list of features or one feature.
render(self, data) ==
    LET meta == IF Truthy(self.metadata) THEN self.metadata.items ELSE <<>>
        final_data ==
            IF data.t = "list"
            THEN meta
                 \o (IF Truthy(self.pagination) THEN self.pagination.items ELSE <<>>)
                 \o << <<"type", Str(<<"FeatureCollection">>)>>, <<"features", data>> >>
            ELSE meta \o data.items
    IN  json_dumps(OrderedDict(final_data))

\* The try block of AddressJsonSerializer.transform_exceptions: the data with
\* the rate converted, or the exception the block raises.
ConvertRate(data, tieUp) ==
    LET props == GetItem(data, "properties")
        raw == IF IsExc(props) THEN props ELSE GetItem(props, "recycling_diversion_rate")
        rate == IF IsExc(raw) THEN [ok |-> FALSE, exc |-> raw.name] ELSE PyFloat(raw)
    IN  IF ~rate.ok THEN Exc(rate.exc)
        ELSE ODict(SetItem(data.items, "properties",
                ODict(SetItem(props.items, "recycling_diversion_rate",
                              Flt(RoundRate(rate.mant, rate.dec, tieUp))))))

\* A transform that catches ValueError only.
transform_exceptions_narrow(data, tieUp) ==
    LET converted == ConvertRate(data, tieUp)
    IN  IF IsExc(converted) /\ converted.name = "ValueError" THEN data ELSE converted

\* AddressJsonSerializer.transform_exceptions: "except: pass" swallows whatever
\* the block raises and the data is returned as it was.
transform_exceptions(data, tieUp) ==
    LET converted == ConvertRate(data, tieUp)
    IN  IF IsExc(converted) THEN data ELSE converted

\* The service-area columns of a record, without id and street_address.
RECURSIVE ServiceAreaItems(_)
ServiceAreaItems(cols) ==
    IF Len(cols) = 0 THEN <<>>
    ELSE IF cols[1][1] \in {"id", "street_address"} THEN ServiceAreaItems(Tail(cols))
    ELSE << cols[1] >> \o ServiceAreaItems(Tail(cols))

PointOf(address) ==
    OrderedDict(<< <<"type", Str(<<"Point">>)>>,
                   <<"coordinates", List(<<address.geocode_x, address.geocode_y>>)>> >>)

SplitOrNone(v) == IF Truthy(v) THEN Split(v, "|") ELSE None

\* The feature AddressJsonSerializer.model_to_data builds, before
\* transform_exceptions.
AddressFeature(address) ==
    LET sa_data == SetAll(<<>>, ServiceAreaItems(address.service_areas))
        properties == OrderedDict(<<
            <<"street_address", address.street_address>>,
            <<"address_low", address.address_low>>,
            <<"address_low_suffix", address.address_low_suffix>>,
            <<"address_low_frac", address.address_low_frac>>,
            <<"address_high", address.address_high>>,
            <<"street_predir", address.street_predir>>,
            <<"street_name", address.street_name>>,
            <<"street_suffix", address.street_suffix>>,
            <<"street_postdir", address.street_postdir>>,
            <<"unit_type", address.unit_type>>,
            <<"unit_num", address.unit_num>>,
            <<"street_full", address.street_full>>,
            <<"zip_code", Or(address.zip_code, None)>>,
            <<"zip_4", Or(address.zip_4, None)>>,
            <<"pwd_parcel_id", Or(address.pwd_parcel_id, None)>>,
            <<"dor_parcel_id", Or(address.dor_parcel_id, None)>>,
            <<"li_address_key", address.li_address_key>>,
            <<"pwd_account_nums", SplitOrNone(address.pwd_account_nums)>>,
            <<"opa_account_num", Or(address.opa_account_num, None)>>,
            <<"opa_owners", SplitOrNone(address.opa_owners)>>,
            <<"opa_address", Or(address.opa_address, None)>>,
            <<"geom_type", IF Truthy(address.geocode_type) THEN Str(<<"centroid">>) ELSE None>>,
            <<"geom_source", address.geocode_type>> >>)
        data == OrderedDict(<<
            <<"type", Str(<<"Feature">>)>>,
            <<"properties", ODict(SetAll(properties.items, sa_data))>>,
            <<"geometry", IF Truthy(address.geocode_type) THEN PointOf(address) ELSE None>> >>)
    IN  data

\* AddressJsonSerializer.model_to_data
AddressJsonSerializer_model_to_data(address, tieUp) ==
    transform_exceptions(AddressFeature(address), tieUp)

\* AddressSummaryJsonSerializer.model_to_data
AddressSummaryJsonSerializer_model_to_data(address) ==
    OrderedDict(<<
        <<"type", Str(<<"Feature">>)>>,
        <<"properties", OrderedDict(<<
            <<"street_address", address.street_address>>,
            <<"address_low", address.address_low>>,
            <<"address_low_suffix", address.address_low_suffix>>,
            <<"address_low_frac", address.address_low_frac>>,
            <<"address_high", address.address_high>>,
            <<"street_predir", address.street_predir>>,
            <<"street_name", address.street_name>>,
            <<"street_suffix", address.street_suffix>>,
            <<"street_postdir", address.street_postdir>>,
            <<"unit_type", address.unit_type>>,
            <<"unit_num", address.unit_num>>,
            <<"street_full", address.street_full>>,
            <<"zip_code", address.zip_code>>,
            <<"zip_4", address.zip_4>>,
            <<"seg_id", address.seg_id>>,
            <<"seg_side", address.seg_side>>,
            <<"pwd_parcel_id", address.pwd_parcel_id>>,
            <<"dor_parcel_id", address.dor_parcel_id>>,
            <<"opa_account_num", address.opa_account_num>>,
            <<"opa_owners", address.opa_owners>>,
            <<"opa_address", address.opa_address>>,
            <<"info_residents", address.info_residents>>,
            <<"info_companies", address.info_companies>>,
            <<"pwd_account_nums", address.pwd_account_nums>>,
            <<"li_address_key", address.li_address_key>>,
            <<"voters", address.voters>>,
            <<"geocode_type", address.geocode_type>>,
            <<"geocode_x", address.geocode_x>>,
            <<"geocode_y", address.geocode_y>> >>)>>,
        <<"geometry", PointOf(address)>> >>)

\* self.model_to_data of the serializer class cls.
model_to_data(cls, address, tieUp) ==
    IF cls = "AddressJsonSerializer"
    THEN AddressJsonSerializer_model_to_data(address, tieUp)
    ELSE AddressSummaryJsonSerializer_model_to_data(address)

\* BaseSerializer.serialize
serialize(cls, self, instance, tieUp) ==
    LET data == model_to_data(cls, instance, tieUp)
    IN  IF IsExc(data) THEN data ELSE render(self, data)

\* BaseSerializer.serialize_many
serialize_many(cls, self, instances, tieUp) ==
    LET data == [i \in DOMAIN instances |-> model_to_data(cls, instances[i], tieUp)]
    IN  IF \E i \in DOMAIN data : IsExc(data[i])
        THEN data[CHOOSE i \in DOMAIN data :
                    IsExc(data[i]) /\ \A j \in 1..(i - 1) : ~IsExc(data[j])]
        ELSE render(self, List(data))

(***************************************************************************)
(* The collaborators of the views: ais/api/errors.py, ais/api/paginator.py *)
(* and ais/util.py, and the registry behind AddressSummary.query.          *)
(***************************************************************************)

\* The most records a query matches.
MaxItems == 3

\* The paginator's page size.
PageSize == 2

\* json_error(status, message, context): the error document.
json_error(status, message, context) ==
    [t |-> "error", status |-> status, message |-> message, context |-> context]

\* NotNoneDict(**kwargs): the items whose value is not None.
NotNoneDict(kwargs) ==
    SelectSeq(kwargs, LAMBDA kv : kv[2] # None)

\* A call of a collaborator, as the trace records it.
Call(who, fn, args) == [who |-> who, fn |-> fn, args |-> args]

\* A record of the registry.
AddressAt(i) ==
    [street_address |-> Str(<<"MARKET ST">>),
     address_low |-> Num(400 + i), address_low_suffix |-> None,
     address_low_frac |-> None, address_high |-> None,
     street_predir |-> None, street_name |-> Str(<<"MARKET">>),
     street_suffix |-> Str(<<"ST">>), street_postdir |-> None,
     unit_type |-> None, unit_num |-> None, street_full |-> Str(<<"MARKET ST">>),
     zip_code |-> Str(<<"19106">>), zip_4 |-> Str(<<>>),
     seg_id |-> Num(i), seg_side |-> Str(<<"L">>),
     pwd_parcel_id |-> Str(<<>>), dor_parcel_id |-> Str(<<"001S07">>),
     li_address_key |-> Str(<<"K">>),
     pwd_account_nums |-> IF i % 2 = 0 THEN Str(<<"1", "|", "2">>) ELSE None,
     opa_account_num |-> Str(<<"883309000">>),
     opa_owners |-> Str(<<"J", "|", "Q">>), opa_address |-> Str(<<"401 MARKET ST">>),
     info_residents |-> None, info_companies |-> None, voters |-> None,
     geocode_type |-> IF i % 2 = 1 THEN Str(<<"centroid">>) ELSE None,
     geocode_x |-> IF i % 2 = 1 THEN Num(10 + i) ELSE None,
     geocode_y |-> IF i % 2 = 1 THEN Num(20 + i) ELSE None,
     service_areas |-> << <<"id", Num(i)>>, <<"street_address", Str(<<"MARKET">>)>>,
                          <<"center_city_district", Str(<<"Yes">>)>>,
                          <<"recycling_diversion_rate",
                            IF i % 2 = 1 THEN Str(<<"1", "2", ".", "3">>) ELSE None>> >>]

\* The ordered collection a query matching n records yields.
Collection(n) == [i \in 1..n |-> AddressAt(i)]

\* QueryPaginator(collection)
QueryPaginator(collection) == [collection |-> collection]

collection_size(paginator) == Len(paginator.collection)

page_count(paginator) ==
    (collection_size(paginator) + PageSize - 1) \div PageSize

\* QueryPaginator.validate_page_num: the page number, or the ValidationError.
validate_page_num(paginator, page_str) ==
    LET parsed == PyInt(page_str)
        failure(message) ==
            [ok |-> FALSE, message |-> message, data |-> << <<"page", page_str>> >>]
    IN  IF ~parsed.ok THEN failure("Page must be a positive integer.")
        ELSE IF parsed.n < 1 THEN failure("Page must be a positive integer.")
        ELSE IF collection_size(paginator) > 0 /\ parsed.n > page_count(paginator)
             THEN failure("Page is out of range.")
        ELSE [ok |-> TRUE, page_num |-> parsed.n]

\* QueryPaginator.get_page: the window of page n.
get_page(paginator, n) ==
    LET size == collection_size(paginator)
        first == (n - 1) * PageSize + 1
        last == IF n * PageSize < size THEN n * PageSize ELSE size
    IN  SubSeq(paginator.collection, first, last)

\* QueryPaginator.get_page_info
get_page_info(paginator, n) ==
    LET size == collection_size(paginator)
    IN  OrderedDict(<< <<"page", Num(n)>>,
                       <<"page_count", Num(page_count(paginator))>>,
                       <<"page_size", Num(PageSize)>>,
                       <<"total_size", Num(size)>> >>)

(***************************************************************************)
(* ais/api/views.py                                                        *)
(***************************************************************************)

\* json_response(response=..., status=...)
json_response(response, status) ==
    [status |-> status, mimetype |-> "application/json", response |-> response]

\* An exception no view catches: the framework answers 500.
Unhandled(name) ==
    [status |-> 500, mimetype |-> "text/html", response |-> Exc(name)]

\* request.args.get('page', '1')
PageArg(args) == IF args.page = None THEN Str(<<"1">>) ELSE args.page

\* validate_page_param: (page_num, None) or (None, error).
validate_page_param(args, paginator) ==
    LET page_str == PageArg(args)
        checked == validate_page_num(paginator, page_str)
    IN  IF ~checked.ok
        THEN [page_num |-> None, error |-> json_error(400, checked.message, checked.data)]
        ELSE [page_num |-> Num(checked.page_num), error |-> None]

\* The rendering of a validated page: get_page, get_page_info and
\* serialize_many, and the 200 response.
RenderPage(made, paginator, page_num, metadata, tieUp) ==
    LET page == get_page(paginator, page_num.n)
        self == [metadata |-> metadata,
                 pagination |-> get_page_info(paginator, page_num.n)]
    IN  [calls |-> made
                   \o <<Call("paginator", "get_page", page_num),
                        Call("executor", "slice", Num(Len(page))),
                        Call("paginator", "get_page_info", page_num),
                        Call("serializer", "serialize_many", Num(Len(page)))>>,
         resp |-> json_response(
                     serialize_many("AddressJsonSerializer", self, page, tieUp), 200)]

\* A view that fetches the page before it looks at the validation's error.
PaginateAndRenderEager(query_calls, not_found, metadata, args, matches, tieUp) ==
    LET paginator == QueryPaginator(Collection(matches))
        counted == query_calls
                   \o <<Call("executor", "count", Num(collection_size(paginator)))>>
        checked == validate_page_param(args, paginator)
        validated == counted \o <<Call("paginator", "validate_page_num", PageArg(args))>>
    IN  IF collection_size(paginator) = 0 THEN [calls |-> counted, resp |-> not_found]
        ELSE IF checked.error # None
             THEN [calls |-> validated \o <<Call("paginator", "get_page", checked.page_num),
                                            Call("executor", "slice", Num(0))>>,
                   resp |-> json_response(checked.error, checked.error.status)]
        ELSE RenderPage(validated, paginator, checked.page_num, metadata, tieUp)

\* The part the three paginated views share: the paginator over the query,
\* the empty-result check, the page validation and the rendering.  not_found is
\* what the view's "return" of the empty branch evaluates to.
PaginateAndRender(query_calls, not_found, metadata, args, matches, tieUp) ==
    LET paginator == QueryPaginator(Collection(matches))
        addresses_count == collection_size(paginator)
        counted == query_calls \o <<Call("executor", "count", Num(addresses_count))>>
        checked == validate_page_param(args, paginator)
        validated == counted \o <<Call("paginator", "validate_page_num", PageArg(args))>>
    IN  IF addresses_count = 0 THEN [calls |-> counted, resp |-> not_found]
        ELSE IF checked.error # None
             THEN [calls |-> validated,
                   resp |-> json_response(checked.error, checked.error.status)]
        ELSE RenderPage(validated, paginator, checked.page_num, metadata, tieUp)

\* loose_filters built as a plain dict: a None stays in the map.
loose_filters_plain(parsed) ==
    <<
        <<"street_name", parsed.components.street.name>>,
        <<"address_low", Or(parsed.components.address.low, parsed.components.address.full)>>,
        <<"street_predir", parsed.components.street.predir>>,
        <<"street_postdir", parsed.components.street.postdir>>,
        <<"street_suffix", parsed.components.street.suffix>>,
        <<"unit_num", parsed.components.unit.unit_num>> >>

\* loose_filters of addresses_view
loose_filters(parsed) ==
    NotNoneDict(<<
        <<"street_name", parsed.components.street.name>>,
        <<"address_low", Or(parsed.components.address.low, parsed.components.address.full)>>,
        <<"street_predir", parsed.components.street.predir>>,
        <<"street_postdir", parsed.components.street.postdir>>,
        <<"street_suffix", parsed.components.street.suffix>>,
        <<"unit_num", parsed.components.unit.unit_num>> >>)

\* strict_filters built as a NotNoneDict: an absent address_high is dropped.
strict_filters_dropping(parsed) ==
    NotNoneDict(<< <<"address_high", parsed.components.address.high_num_full>> >>)

\* strict_filters of addresses_view
strict_filters(parsed) ==
    << <<"address_high", parsed.components.address.high_num_full>> >>

Context2(query, normalized) ==
    << <<"query", query>>, <<"normalized", normalized>> >>

\* addresses_view(query), as the calls it makes and its response.
addresses_view_run(query, parsed, args, matches, tieUp) ==
    LET normalized_address == parsed.components.street_address
        query_calls == <<
            Call("executor", "filter_by",
                 [loose |-> loose_filters(parsed), strict |-> strict_filters(parsed)]),
            Call("executor", "filter_by_unit_type", parsed.components.unit.unit_type),
            Call("executor", "exclude_non_opa", args.opa_only),
            Call("executor", "include_child_units", parsed.components.address.high_num_full),
            Call("executor", "order_by_address", None) >>
        error == json_error(404, "Could not find addresses matching query.",
                            Context2(query, normalized_address))
    IN  PaginateAndRender(query_calls, json_response(error, 404),
                          ODict(Context2(query, normalized_address)), args, matches, tieUp)

\* filters of block_view
block_filters(parsed) ==
    NotNoneDict(<<
        <<"street_name", parsed.components.street.name>>,
        <<"street_predir", parsed.components.street.predir>>,
        <<"street_postdir", parsed.components.street.postdir>>,
        <<"street_suffix", parsed.components.street.suffix>> >>)

\* A block number rounded to the nearest hundred instead of down.
block_num_nearest(address_num) == ((address_num + 50) \div 100) * 100

\* block_num of block_view
block_num(address_num) == (address_num \div 100) * 100

\* The two range filters of block_view.
block_range_calls(address_num) ==
    << Call("executor", "filter", [field |-> "address_low", op |-> ">=",
                                   value |-> block_num(address_num)]),
       Call("executor", "filter", [field |-> "address_low", op |-> "<",
                                   value |-> block_num(address_num) + 100]) >>

\* block_view(query)
block_view_run(query, parsed, args, matches, tieUp) ==
    LET normalized_address == parsed.components.street_address
        address_num == PyInt(Or(parsed.components.address.low,
                                parsed.components.address.full))
        invalid == json_error(400, "No valid block number provided.",
                              Context2(query, normalized_address))
        query_calls ==
            <<Call("executor", "filter_by", [loose |-> block_filters(parsed), strict |-> <<>>])>>
            \o block_range_calls(address_num.n)
            \o <<Call("executor", "exclude_non_opa", args.opa_only),
                 Call("executor", "order_by_address", None)>>
        error == json_error(404, "Could not find any address on a block matching query.",
                            Context2(query, normalized_address))
    IN  IF ~address_num.ok
        THEN [calls |-> <<>>,
              resp |-> IF address_num.exc = "ValueError" THEN json_response(invalid, 400)
                       ELSE Unhandled(address_num.exc)]
        ELSE PaginateAndRender(query_calls, json_response(error, 404),
                               ODict(Context2(query, normalized_address)),
                               args, matches, tieUp)

Lower == <<"a", "b", "c", "d", "e", "f", "g", "h", "i", "j", "k", "l", "m",
           "n", "o", "p", "q", "r", "s", "t", "u", "v", "w", "x", "y", "z">>

Capital == <<"A", "B", "C", "D", "E", "F", "G", "H", "I", "J", "K", "L", "M",
             "N", "O", "P", "Q", "R", "S", "T", "U", "V", "W", "X", "Y", "Z">>

\* s.upper()
Upper(cs) ==
    [i \in DOMAIN cs |->
        IF \E j \in DOMAIN Lower : Lower[j] = cs[i]
        THEN Capital[CHOOSE j \in DOMAIN Lower : Lower[j] = cs[i]]
        ELSE cs[i]]

\* s.split(): the runs between white space, none of them empty.
RECURSIVE Words(_, _)
Words(cs, cur) ==
    LET done == IF Len(cur) = 0 THEN <<>> ELSE <<Str(cur)>>
    IN  IF Len(cs) = 0 THEN done
        ELSE IF cs[1] = " " THEN done \o Words(Tail(cs), <<>>)
        ELSE Words(Tail(cs), Append(cur, cs[1]))

\* owner_parts of owner
owner_parts(query) == Words(Upper(query.cs), <<>>)

\* What the empty branch of owner returns: "response-error" reads the name
\* response, which nothing in the module binds.
owner_not_found(query) == Unhandled("NameError")

\* owner(query)
owner_run(query, args, matches, tieUp) ==
    LET query_calls == <<
            Call("executor", "filter_by_owner", owner_parts(query)),
            Call("executor", "exclude_non_opa", args.opa_only),
            Call("executor", "order_by_address", None) >>
    IN  PaginateAndRender(query_calls, owner_not_found(query),
                          ODict(<< <<"query", query>>,
                                   <<"parsed", List(owner_parts(query))>> >>),
                          args, matches, tieUp)

\* account_number_view(number)
account_number_view_run(number, args, matches, tieUp) ==
    LET query_calls == <<
            Call("executor", "join", None),
            Call("executor", "filter", [field |-> "opa_account_num", op |-> "==",
                                        value |-> number]),
            Call("executor", "exclude_non_opa", args.opa_only),
            Call("executor", "order_by_address", None),
            Call("executor", "first", Num(IF matches = 0 THEN 0 ELSE 1)) >>
        error == json_error(404, "Could not find property with account number.",
                            << <<"number", number>> >>)
        self == [metadata |-> None, pagination |-> None]
    IN  IF matches = 0
        THEN [calls |-> query_calls, resp |-> json_response(error, 404)]
        ELSE [calls |-> query_calls \o <<Call("serializer", "serialize", Num(1))>>,
              resp |-> json_response(
                          serialize("AddressJsonSerializer", self, AddressAt(1), tieUp), 200)]

(***************************************************************************)
(* The requests.                                                           *)
(***************************************************************************)

\* The longest address-number token of a block query.
MaxTokLen == 3

\* The longest owner query.
MaxQueryLen == 3

Seqs(S, n) == UNION {[1..k -> S] : k \in 0..n}

Opt(v) == {None, v}

TokChars == {"3", "4", "7"}

\* Tokens that are not a number.
BadTokens == {<<"A">>, <<"4", "A">>, <<"-">>}

OwnerChars == {"a", "B", " "}

\* The page argument: absent, or a string.
PageArgs == {None, Str(<<"0">>), Str(<<"2">>), Str(<<"-", "1">>), Str(<<"x">>)}

Args == [page : PageArgs, opa_only : BOOLEAN]

\* What PassyunkParser().parse(query) returns.
Parsed(name, predir, postdir, suffix, low, full, high, unit_num, unit_type) ==
    [components |->
        [street |-> [name |-> name, predir |-> predir, postdir |-> postdir,
                     suffix |-> suffix],
         address |-> [low |-> low, full |-> full, high_num_full |-> high],
         unit |-> [unit_num |-> unit_num, unit_type |-> unit_type],
         street_address |-> Str(<<"437 N MARKET ST">>)]]

AddressQueries ==
    {Parsed(name, predir, postdir, suffix, low, full, high, unit_num, unit_type) :
        name \in Opt(Str(<<"MARKET">>)), predir \in Opt(Str(<<"N">>)),
        postdir \in Opt(Str(<<"W">>)), suffix \in Opt(Str(<<"ST">>)),
        low \in {None, Str(<<>>), Str(<<"4", "3", "7">>)},
        full \in Opt(Str(<<"4", "3", "7", "-", "3", "9">>)),
        high \in Opt(Str(<<"4", "3", "9">>)),
        unit_num \in Opt(Str(<<"2">>)), unit_type \in {Str(<<"APT">>)}}

Streets ==
    { <<None, None, None, None>>,
      <<Str(<<"MARKET">>), None, None, Str(<<"ST">>)>>,
      <<Str(<<"MARKET">>), Str(<<"N">>), Str(<<"W">>), Str(<<"ST">>)>> }

BlockQueries ==
    {Parsed(st[1], st[2], st[3], st[4], low, full, None, None, None) :
        st \in Streets,
        low \in {None} \cup {Str(cs) : cs \in Seqs(TokChars, MaxTokLen) \cup BadTokens},
        full \in Opt(Str(<<"7">>))}

OwnerQueries == {Str(cs) : cs \in Seqs(OwnerChars, MaxQueryLen)}

Request(query, parsed, args, matches) ==
    [query |-> query, parsed |-> parsed, args |-> args, matches |-> matches,
     tieUp |-> FALSE]

Init ==
    /\ endpoint = "idle"
    /\ req = None
    /\ calls = <<>>
    /\ resp = None

addresses_view ==
    /\ endpoint = "idle"
    /\ \E parsed \in AddressQueries, args \in Args, matches \in 0..MaxItems :
        LET query == Str(<<"437-39 n market st w apt 2">>)
            run == addresses_view_run(query, parsed, args, matches, FALSE)
        IN  /\ endpoint' = "addresses"
            /\ req' = Request(query, parsed, args, matches)
            /\ calls' = run.calls
            /\ resp' = run.resp

block_view ==
    /\ endpoint = "idle"
    /\ \E parsed \in BlockQueries, args \in Args, matches \in 0..MaxItems :
        LET query == Str(<<"437 n market st w">>)
            run == block_view_run(query, parsed, args, matches, FALSE)
        IN  /\ endpoint' = "block"
            /\ req' = Request(query, parsed, args, matches)
            /\ calls' = run.calls
            /\ resp' = run.resp

owner ==
    /\ endpoint = "idle"
    /\ \E query \in OwnerQueries, args \in Args, matches \in 0..MaxItems :
        LET run == owner_run(query, args, matches, FALSE)
        IN  /\ endpoint' = "owner"
            /\ req' = Request(query, None, args, matches)
            /\ calls' = run.calls
            /\ resp' = run.resp

account_number_view ==
    /\ endpoint = "idle"
    /\ \E args \in Args, matches \in 0..MaxItems :
        LET number == Str(<<"883309000">>)
            run == account_number_view_run(number, args, matches, FALSE)
        IN  /\ endpoint' = "account"
            /\ req' = Request(number, None, args, matches)
            /\ calls' = run.calls
            /\ resp' = run.resp

Next == addresses_view \/ block_view \/ owner \/ account_number_view

Spec == Init /\ [][Next]_vars

(***************************************************************************)
(* The serializers on their own: Init draws the serializer's fields and    *)
(* the records, the actions serialize them.                                *)
(***************************************************************************)

\* The most keys of a metadata mapping.
MaxMetaKeys == 2

\* The longest recycling rate.
MaxRateLen == 3

\* The most records of a sequence to serialize.
MaxRecords == 2

MetaKeys == {"query", "type", "page"}

RateChars == {"5", "0", "."}

\* A record without the recycling_diversion_rate column.
Absent == [t |-> "absent"]

Injective(f) == \A i, j \in DOMAIN f : f[i] = f[j] => i = j

\* A dict is None, or its items with distinct keys.
Metadatas ==
    {None} \cup
    {ODict([i \in DOMAIN ks |-> <<ks[i], Str(<<"m", ks[i]>>)>>]) :
        ks \in {f \in Seqs(MetaKeys, MaxMetaKeys) : Injective(f)}}

Paginations ==
    {None, ODict(<<>>),
     ODict(<< <<"page", Num(1)>>, <<"page_count", Num(2)>> >>)}

Rates ==
    {Absent, None, Num(50), Str(<<"x">>)}
    \cup {Str(cs) : cs \in Seqs(RateChars, MaxRateLen)}

Geocodes ==
    {[type |-> None, x |-> None, y |-> None],
     [type |-> None, x |-> Num(10), y |-> Num(20)],
     [type |-> Str(<<>>), x |-> Num(11), y |-> Num(21)],
     [type |-> Str(<<"centroid">>), x |-> Num(10), y |-> Num(20)]}

RecordWith(geo, rate) ==
    [AddressAt(1) EXCEPT
        !.geocode_type = geo.type, !.geocode_x = geo.x, !.geocode_y = geo.y,
        !.service_areas =
            << <<"id", Num(1)>>, <<"street_address", Str(<<"MARKET">>)>>,
               <<"center_city_district", Str(<<"Yes">>)>> >>
            \o (IF rate = Absent THEN <<>>
                ELSE << <<"recycling_diversion_rate", rate>> >>)]

Records == {RecordWith(geo, rate) : geo \in Geocodes, rate \in Rates}

SampleRecords ==
    {RecordWith([type |-> None, x |-> None, y |-> None], Absent),
     RecordWith([type |-> Str(<<"centroid">>), x |-> Num(10), y |-> Num(20)],
                Str(<<"5", "0">>)),
     RecordWith([type |-> Str(<<>>), x |-> Num(11), y |-> Num(21)], Str(<<"x">>))}

Serializers == {"AddressJsonSerializer", "AddressSummaryJsonSerializer"}

InitSer ==
    /\ calls = <<>>
    /\ resp = None
    /\ \/ /\ endpoint = "serialize"
          /\ req \in [cls : Serializers, metadata : Metadatas,
                      pagination : Paginations \ {ODict(<<>>)},
                      instance : Records, tieUp : BOOLEAN]
       \/ /\ endpoint = "serialize_many"
          /\ req \in [cls : Serializers, metadata : Metadatas,
                      pagination : Paginations,
                      instances : Seqs(SampleRecords, MaxRecords), tieUp : {FALSE}]

Serialize ==
    /\ endpoint = "serialize"
    /\ resp = None
    /\ resp' = serialize(req.cls, [metadata |-> req.metadata, pagination |-> req.pagination],
                         req.instance, req.tieUp)
    /\ UNCHANGED <<endpoint, req, calls>>

SerializeMany ==
    /\ endpoint = "serialize_many"
    /\ resp = None
    /\ resp' = serialize_many(req.cls,
                              [metadata |-> req.metadata, pagination |-> req.pagination],
                              req.instances, req.tieUp)
    /\ UNCHANGED <<endpoint, req, calls>>

NextSer == Serialize \/ SerializeMany

SpecSer == InitSer /\ [][NextSer]_vars

(***************************************************************************)
(* The views' properties.                                                  *)
(***************************************************************************)

Views == {"addresses", "block", "owner", "account"}

Paginated == {"addresses", "block", "owner"}

Made(fn) == \E i \in DOMAIN calls : calls[i].fn = fn

\* The executor's answer was an empty collection (or no record).
FoundNothing ==
    \E i \in DOMAIN calls : calls[i].fn \in {"count", "first"} /\ calls[i].args = Num(0)

\* r is an error document of the given status, with a message and a context.
ErrorDocument(r, status) ==
    /\ r.status = status
    /\ r.mimetype = "application/json"
    /\ r.response.t = "error"
    /\ r.response.status = status
    /\ r.response.message # ""
    /\ Len(r.response.context) > 0

QueryContext == Context2(req.query, req.parsed.components.street_address)

\* The address token of the request, as int() reads it.
AddressNum ==
    PyInt(Or(req.parsed.components.address.low, req.parsed.components.address.full))

\* The page argument names a page of the collection.
PageValid ==
    LET p == PyInt(PageArg(req.args))
    IN  p.ok /\ 1 <= p.n /\ (p.n - 1) * PageSize < req.matches

\* C1: on every endpoint an empty result (no record, for account) is answered
\* by a 404 error document with a message and a context echoing the query;
\* never by a 200 and never by another failure.
C1_EmptyResultIsNotFound ==
    (endpoint \in Views /\ FoundNothing) =>
        /\ ErrorDocument(resp, 404)
        /\ \E i \in DOMAIN resp.response.context :
                resp.response.context[i][2] = req.query

\* C2 as stated: a run that ends in a 400 has called neither the executor
\* (its total-size query included) nor the serializer.
C2_NoCallBeforeBadRequest ==
    (endpoint \in Views /\ resp.status = 400) =>
        \A i \in DOMAIN calls : calls[i].who \notin {"executor", "serializer"}

\* C2, amended: a block-number failure ends the run before any call; a page
\* failure ends it after the query's total-size query and before any page
\* retrieval or serializer call.
C2_BadRequestShortCircuits ==
    (endpoint \in Views /\ resp.status = 400) =>
        /\ endpoint \in Paginated
        /\ \A i \in DOMAIN calls :
                /\ calls[i].who # "serializer"
                /\ calls[i].fn \notin {"get_page", "get_page_info", "slice", "first"}
        /\ IF endpoint = "block" /\ ~AddressNum.ok
           THEN calls = <<>>
           ELSE /\ Len(calls) >= 2
                /\ calls[Len(calls)].fn = "validate_page_num"
                /\ calls[Len(calls) - 1].fn = "count"
                /\ calls[Len(calls) - 1].args # Num(0)
                /\ Cardinality({i \in DOMAIN calls : calls[i].fn = "count"}) = 1

C2_PageFailureAfterCount ==
    /\ endpoint = "block"
    /\ resp.status = 400
    /\ Made("count")
    /\ ~PageValid

\* C3: in the block endpoint every address token that is no integer, both
\* fields absent included, is answered by the 400 error document with the
\* query and its normalized form, and by nothing else.
C3_BadTokenIsBadRequest ==
    (endpoint = "block" /\ ~AddressNum.ok) =>
        /\ ErrorDocument(resp, 400)
        /\ resp.response.context = QueryContext
        /\ calls = <<>>

\* C4: for an address number n >= 0 the block endpoint filters on
\* low <= address_low < high with low = floor(n / 100) * 100 and
\* high = low + 100, so low <= n < high; n = 437 gives 400 and 500.
C4_BlockRange ==
    (endpoint = "block" /\ AddressNum.ok /\ AddressNum.n >= 0) =>
        LET n == AddressNum.n
            ranges == SelectSeq(calls, LAMBDA c : c.fn = "filter")
        IN  /\ Len(ranges) = 2
            /\ ranges[1].args.field = "address_low" /\ ranges[1].args.op = ">="
            /\ ranges[2].args.field = "address_low" /\ ranges[2].args.op = "<"
            /\ LET low == ranges[1].args.value
                   high == ranges[2].args.value
               IN  /\ low % 100 = 0
                   /\ low <= n /\ n < high
                   /\ high - low = 100
                   /\ n = 437 => (low = 400 /\ high = 500)

C4_Block437 ==
    /\ endpoint = "block"
    /\ AddressNum.ok /\ AddressNum.n = 437
    /\ \E i \in DOMAIN calls :
            calls[i].fn = "filter" /\ calls[i].args.op = ">=" /\ calls[i].args.value = 400

\* C5: the strict map of the address endpoint always holds address_high, with
\* None when the query has no address-high, and address_high is never in the
\* loose map: no key is in both.
C5_StrictKeepsAddressHigh ==
    endpoint = "addresses" =>
        LET f == calls[1].args
        IN  /\ calls[1].fn = "filter_by"
            /\ Has(f.strict, "address_high")
            /\ f.strict[IndexOf(f.strict, "address_high")][2]
                    = req.parsed.components.address.high_num_full
            /\ ~Has(f.loose, "address_high")
            /\ \A i \in DOMAIN f.loose, j \in DOMAIN f.strict :
                    f.loose[i][1] # f.strict[j][1]

C5_AbsentHighKept ==
    /\ endpoint = "addresses"
    /\ req.parsed.components.address.high_num_full = None
    /\ calls[1].args.strict = << <<"address_high", None>> >>

LooseKeys ==
    {"street_name", "address_low", "street_predir", "street_postdir",
     "street_suffix", "unit_num"}

\* The query's field behind a filter key.
FieldOf(parsed, key) ==
    CASE key = "street_name" -> parsed.components.street.name
      [] key = "address_low" -> parsed.components.address.low
      [] key = "street_predir" -> parsed.components.street.predir
      [] key = "street_postdir" -> parsed.components.street.postdir
      [] key = "street_suffix" -> parsed.components.street.suffix
      [] key = "unit_num" -> parsed.components.unit.unit_num
      [] key = "address_full" -> parsed.components.address.full
      [] key = "address_high" -> parsed.components.address.high_num_full

\* The query with one field removed.
Removed(parsed, key) ==
    CASE key = "street_name" -> [parsed EXCEPT !.components.street.name = None]
      [] key = "address_low" -> [parsed EXCEPT !.components.address.low = None]
      [] key = "street_predir" -> [parsed EXCEPT !.components.street.predir = None]
      [] key = "street_postdir" -> [parsed EXCEPT !.components.street.postdir = None]
      [] key = "street_suffix" -> [parsed EXCEPT !.components.street.suffix = None]
      [] key = "unit_num" -> [parsed EXCEPT !.components.unit.unit_num = None]
      [] key = "address_full" -> [parsed EXCEPT !.components.address.full = None]
      [] key = "address_high" -> [parsed EXCEPT !.components.address.high_num_full = None]

AllSet(parsed) ==
    \A key \in LooseKeys \cup {"address_full", "address_high"} :
        Truthy(FieldOf(parsed, key))

\* C6 as stated: a loose field that is None has no key in the loose map, and
\* from a query with all fields set, removing any one loose field shrinks the
\* loose map by one key, removing address-high keeps the strict map's size and
\* changes its value.
C6_RemovingAFieldShrinks ==
    endpoint = "addresses" =>
        LET parsed == req.parsed
            loose == calls[1].args.loose
            strict == calls[1].args.strict
        IN  /\ \A key \in LooseKeys : FieldOf(parsed, key) = None => ~Has(loose, key)
            /\ AllSet(parsed) =>
                /\ \A key \in LooseKeys :
                        Len(loose_filters(Removed(parsed, key))) = Len(loose) - 1
                /\ Len(strict_filters(Removed(parsed, "address_high"))) = Len(strict)
                /\ strict_filters(Removed(parsed, "address_high")) # strict

\* C6, amended: the value of address_low is address-low or, when that is
\* absent or empty, the full address-number token.  A loose field whose value
\* is None has no key; from a query with all fields set, removing a loose
\* field other than address-low shrinks the loose map by one key, removing
\* address-low alone keeps its size (address_low maps to the full token),
\* removing address-low and the full token shrinks it by one, and removing
\* address-high keeps the strict map's size and changes its value.
C6_RemovingAFieldShrinksBarFallback ==
    endpoint = "addresses" =>
        LET parsed == req.parsed
            loose == calls[1].args.loose
            strict == calls[1].args.strict
            low == Or(parsed.components.address.low, parsed.components.address.full)
            noLow == loose_filters(Removed(parsed, "address_low"))
        IN  /\ \A key \in LooseKeys \ {"address_low"} :
                    FieldOf(parsed, key) = None => ~Has(loose, key)
            /\ low = None => ~Has(loose, "address_low")
            /\ \A i \in DOMAIN loose : loose[i][2] # None
            /\ AllSet(parsed) =>
                /\ Len(loose) = Cardinality(LooseKeys)
                /\ \A key \in LooseKeys \ {"address_low"} :
                        /\ Len(loose_filters(Removed(parsed, key))) = Len(loose) - 1
                        /\ ~Has(loose_filters(Removed(parsed, key)), key)
                /\ Len(noLow) = Len(loose)
                /\ noLow[IndexOf(noLow, "address_low")][2] = parsed.components.address.full
                /\ Len(loose_filters(Removed(Removed(parsed, "address_low"), "address_full")))
                        = Len(loose) - 1
                /\ Len(strict_filters(Removed(parsed, "address_high"))) = Len(strict)
                /\ strict_filters(Removed(parsed, "address_high")) # strict

C6_AllFieldsSet ==
    /\ endpoint = "addresses"
    /\ AllSet(req.parsed)
    /\ Len(calls[1].args.loose) = 6
    /\ Len(loose_filters(Removed(req.parsed, "unit_num"))) = 5

\* C10: in a paginated endpoint an empty collection is a 404 whatever the page
\* argument is, the page is never validated then; over a collection that is
\* not empty a page argument that is no page of it is a 400 error document
\* with the context {page: the argument}, and get_page, get_page_info and the
\* serializer only ever run after the validation, on the validated page.
C10_EmptyThenPageThenRender ==
    (endpoint \in Paginated /\ Made("count")) =>
        /\ req.matches = 0 =>
                (ErrorDocument(resp, 404) /\ ~Made("validate_page_num"))
        /\ (req.matches > 0 /\ ~PageValid) =>
                /\ ErrorDocument(resp, 400)
                /\ resp.response.context = << <<"page", PageArg(req.args)>> >>
                /\ ~Made("get_page") /\ ~Made("get_page_info") /\ ~Made("serialize_many")
        /\ \A i \in DOMAIN calls :
                calls[i].fn \in {"get_page", "get_page_info", "serialize_many"} =>
                    /\ PageValid
                    /\ \E j \in 1..(i - 1) : calls[j].fn = "validate_page_num"
                    /\ calls[i].fn # "serialize_many" =>
                            calls[i].args = Num(PyInt(PageArg(req.args)).n)

(***************************************************************************)
(* The serializers' properties.                                            *)
(***************************************************************************)

Serialized == endpoint \in {"serialize", "serialize_many"} /\ resp # None

KeysOf(d) == IF Truthy(d) THEN Keys(d.items) ELSE <<>>

Member(doc, k) == doc.items[IndexOf(doc.items, k)][2]

FeatureKeys == <<"type", "properties", "geometry">>

CollectionKeys == <<"type", "features">>

\* The features of the records of a serialize_many request, in order.
FeaturesOf(request) ==
    [i \in DOMAIN request.instances |->
        json_dumps(model_to_data(request.cls, request.instances[i], request.tieUp))]

\* The document's keys are exactly the given ones, in order.
HasKeys(doc, keys) ==
    /\ doc.t = "object"
    /\ Len(doc.items) = Len(keys)
    /\ \A i \in DOMAIN keys : doc.items[i][1] = keys[i]

FeatureCollectionOf(doc, request) ==
    /\ Has(doc.items, "type") /\ Has(doc.items, "features")
    /\ Member(doc, "type") = [t |-> "string", cs |-> <<"FeatureCollection">>]
    /\ Member(doc, "features").t = "array"
    /\ Len(Member(doc, "features").items) = Len(request.instances)
    /\ \A i \in DOMAIN request.instances :
            Member(doc, "features").items[i] = FeaturesOf(request)[i]

\* C7 as stated: for any metadata and pagination mapping a single record
\* renders to the metadata keys, then type, properties, geometry; a sequence
\* to the metadata keys, the pagination keys, type = "FeatureCollection" and
\* features, as many as the records and in their order.
C7_TopLevelKeys ==
    Serialized =>
        /\ endpoint = "serialize" =>
                HasKeys(resp, KeysOf(req.metadata) \o FeatureKeys)
        /\ endpoint = "serialize_many" =>
                /\ HasKeys(resp, KeysOf(req.metadata) \o KeysOf(req.pagination)
                                 \o CollectionKeys)
                /\ FeatureCollectionOf(resp, req)

\* The keys of the metadata, of the pagination and of the document proper are
\* all different.
DistinctKeys ==
    LET meta == Range(KeysOf(req.metadata))
        pages == Range(KeysOf(req.pagination))
    IN  /\ meta \cap pages = {}
        /\ (meta \cup pages) \cap (Range(FeatureKeys) \cup Range(CollectionKeys)) = {}

\* C7, amended: the same, for metadata and pagination mappings whose keys
\* differ from each other and from type, properties, geometry and features.
C7_TopLevelKeysWhenDistinct ==
    (Serialized /\ DistinctKeys) =>
        /\ endpoint = "serialize" =>
                HasKeys(resp, KeysOf(req.metadata) \o FeatureKeys)
        /\ endpoint = "serialize_many" =>
                /\ HasKeys(resp, KeysOf(req.metadata) \o KeysOf(req.pagination)
                                 \o CollectionKeys)
                /\ FeatureCollectionOf(resp, req)

C7_CollectionOfTwo ==
    /\ Serialized
    /\ endpoint = "serialize_many"
    /\ DistinctKeys
    /\ Len(req.instances) = 2 /\ req.instances[1] # req.instances[2]
    /\ Len(KeysOf(req.metadata)) = 1 /\ Len(KeysOf(req.pagination)) = 2
    /\ HasKeys(resp, <<"query", "page", "page_count", "type", "features">>)

\* The recycling_diversion_rate of a record, Absent without the column.
RateOf(address) ==
    IF Has(address.service_areas, "recycling_diversion_rate")
    THEN address.service_areas[IndexOf(address.service_areas,
                                       "recycling_diversion_rate")][2]
    ELSE Absent

Abs(x) == IF x < 0 THEN 0 - x ELSE x

\* C8: the recycling-rate transform never raises; a rate that is present and
\* parses as a number becomes round(rate / 100, 3) and no other property
\* changes; without a rate, or with one that is no number, the properties
\* stay as they were, keys, values and order.
C8_RateTransform ==
    (Serialized /\ endpoint = "serialize" /\ req.cls = "AddressJsonSerializer") =>
        /\ resp.t = "object"
        /\ LET before == json_dumps(GetItem(AddressFeature(req.instance), "properties")).items
               after == Member(resp, "properties").items
               rate == RateOf(req.instance)
               number == IF rate = Absent THEN [ok |-> FALSE] ELSE PyFloat(rate)
           IN  /\ Len(after) = Len(before)
               /\ \A i \in DOMAIN before :
                    /\ after[i][1] = before[i][1]
                    /\ before[i][1] # "recycling_diversion_rate" => after[i] = before[i]
               /\ ~number.ok => after = before
               /\ number.ok =>
                    LET new == after[IndexOf(after, "recycling_diversion_rate")][2]
                        unit == Pow10(number.dec + 2)
                    IN  /\ new.t = "number"
                        /\ 2 * Abs(new.milli * unit - number.mant * 1000) <= unit

C8_FiftyIsHalf ==
    /\ Serialized
    /\ endpoint = "serialize" /\ req.cls = "AddressJsonSerializer"
    /\ RateOf(req.instance) = Str(<<"5", "0">>)
    /\ resp.t = "object"
    /\ Member(Member(resp, "properties"), "recycling_diversion_rate")
            = [t |-> "number", milli |-> 500]

\* C9: whatever the serializer, full or summary, the geometry of a record is
\* null without a geocode type and else the Point [geocode_x, geocode_y].
C9_GeometryFollowsGeocode ==
    (Serialized /\ endpoint = "serialize") =>
        /\ resp.t = "object"
        /\ Has(resp.items, "geometry")
        /\ Member(resp, "geometry") =
                IF Truthy(req.instance.geocode_type)
                THEN json_dumps(OrderedDict(<<
                        <<"type", Str(<<"Point">>)>>,
                        <<"coordinates",
                          List(<<req.instance.geocode_x, req.instance.geocode_y>>)>> >>))
                ELSE [t |-> "null"]

====
